---- MODULE Spec2Model ----
(***************************************************************************)
(* Model of socks.c: a terminal editor skeleton that captures the terminal *)
(* attributes, switches the terminal to raw mode, registers an atexit      *)
(* handler restoring the attributes, queries the window size and then      *)
(* loops editorRefreshScreen / editorProcessKey until Ctrl-Q is read.      *)
(*                                                                         *)
(* The process is a single thread; pc is its position:                     *)
(*   "start"    before init()                                              *)
(*   "refresh"  main loop, about to call editorRefreshScreen()             *)
(*   "read"     inside editorReadKey(), about to call read()               *)
(*   "dispatch" editorReadKey() has returned, switch (c) not yet taken     *)
(*   "exit"     exit() has been called, atexit handlers are being run      *)
(*   "done"     the process has ended through _exit(exitCode)              *)
(*   "crashed"  the process was killed inside a recursive exit()           *)
(* System calls are the environment: their results are chosen with \E.     *)
(***************************************************************************)
EXTENDS Integers, Sequences, FiniteSets, TLC

\* ---------------------------------------------------------------- bounds
MaxRows == 2      \* largest ws_row the window-size query reports
MaxCols == 1      \* largest ws_col the window-size query reports
MaxLoops == 2     \* main-loop iterations explored
MaxRetries == 2   \* unsuccessful read() calls explored per editorReadKey()
MaxEnters == 2    \* enableRawMode() calls a session driver makes

\* ------------------------------------------------------- program constants
CtrlMask == 31    \* 0x1f in CTRL_KEY
QuitLetter == 113 \* 'q' in case CTRL_KEY('q')

Byte == 0..255

RECURSIVE BitAnd(_, _)
BitAnd(a, b) ==
  IF a = 0 \/ b = 0 THEN 0
  ELSE (a % 2) * (b % 2) + 2 * BitAnd(a \div 2, b \div 2)

\* Variant: the mask is 0x7f.
CTRL_KEY_sevenBits(k) == BitAnd(k, 127)

CTRL_KEY(k) == BitAnd(k, CtrlMask)

\* ------------------------------------------------------- escape sequences
ED == "ESC[2J"      \* write(STDOUT_FILENO, "\x1b[2J", 4)
HOME == "ESC[H"     \* write(STDOUT_FILENO, "\x1b[H", 3)
ROW == "~\\r\\n"    \* write(STDOUT_FILENO, "~\r\n", 3)

\* ---------------------------------------------------------------- termios
\* struct termios: the four flag words as sets of the bits that are set,
\* and the control characters.  CS8 is the two-bit character-size mask.
CS8 == {"CSIZE0", "CSIZE1"}

CcNames == {"VINTR", "VMIN", "VTIME"}

ZeroTermios ==
  [c_iflag |-> {}, c_oflag |-> {}, c_cflag |-> {}, c_lflag |-> {},
   c_cc |-> [n \in CcNames |-> 0]]

\* Configurations the terminal can have when the program starts.
CookedTermios ==
  [c_iflag |-> {"BRKINT", "ICRNL", "IXON", "IUTF8"},
   c_oflag |-> {"OPOST", "ONLCR"},
   c_cflag |-> {"CSIZE0", "CSIZE1", "CREAD"},
   c_lflag |-> {"ECHO", "ICANON", "ISIG", "IEXTEN", "ECHOE"},
   c_cc |-> [n \in CcNames |-> IF n = "VINTR" THEN 3 ELSE IF n = "VMIN" THEN 1 ELSE 0]]

SevenBitTermios ==
  [c_iflag |-> {"ICRNL", "INPCK", "ISTRIP"},
   c_oflag |-> {"OPOST"},
   c_cflag |-> {"CSIZE1", "CREAD", "PARENB"},
   c_lflag |-> {"ECHO", "ICANON", "ISIG"},
   c_cc |-> [n \in CcNames |-> IF n = "VINTR" THEN 3 ELSE IF n = "VMIN" THEN 4 ELSE 2]]

NoEchoTermios ==
  [c_iflag |-> {"IUTF8"},
   c_oflag |-> {},
   c_cflag |-> {"CSIZE0", "CSIZE1", "CREAD"},
   c_lflag |-> {"ECHOE"},
   c_cc |-> [n \in CcNames |-> IF n = "VINTR" THEN 3 ELSE 1]]

StartTermios == {CookedTermios, SevenBitTermios, NoEchoTermios}

\* tcgetattr(STDIN_FILENO, &E.original_termios): on success the current
\* attributes are stored, on failure the destination is left as it was.
\* init() does not look at the return value.
tcgetattr(ok, cur, dest) == IF ok THEN cur ELSE dest

\* Variant: the raw attributes are built by hand, not derived.
enableRawModeFlags_fresh(orig) ==
  [c_cflag |-> CS8, c_iflag |-> {}, c_oflag |-> {}, c_lflag |-> {},
   c_cc |-> [n \in CcNames |-> IF n \in {"VMIN", "VTIME"} THEN 1 ELSE 0]]

\* The attributes enableRawMode() builds from E.original_termios.
enableRawModeFlags(orig) ==
  [c_cflag |-> orig.c_cflag \cup CS8,
   c_iflag |-> orig.c_iflag \ {"BRKINT", "ICRNL", "INPCK", "ISTRIP", "IXON"},
   c_oflag |-> orig.c_oflag \ {"OPOST"},
   c_lflag |-> orig.c_lflag \ {"ECHO", "ICANON", "ISIG", "IEXTEN"},
   c_cc |-> [orig.c_cc EXCEPT !["VMIN"] = 1, !["VTIME"] = 1]]

\* Variant: enableRawMode saves the attributes the terminal has when it is
\* called (tcgetattr inside enableRawMode).
enableRawModeSaved_recapture(e, cur) == cur

\* What enableRawMode() leaves in E.original_termios: it only reads it.
enableRawModeSaved(e, cur) == e.original_termios

\* Variant: the handler hands the raw attributes to tcsetattr.
disableRawModeArg_raw(e) == enableRawModeFlags(e.original_termios)

\* The attributes disableRawMode() hands to tcsetattr.
disableRawModeArg(e) == e.original_termios

\* Variant: the column count is not tested.
getWindowSize_noColumnTest(ioctlOK, ws_row, ws_col) ==
  IF ~ioctlOK
  THEN [ret |-> -1, set |-> FALSE, rows |-> 0, columns |-> 0]
  ELSE [ret |-> 0, set |-> TRUE, rows |-> ws_row, columns |-> ws_col]

\* getWindowSize(): -1 when the ioctl fails or reports zero columns,
\* otherwise 0 with *rows and *columns filled in.
getWindowSize(ioctlOK, ws_row, ws_col) ==
  IF ~ioctlOK \/ ws_col = 0
  THEN [ret |-> -1, set |-> FALSE, rows |-> 0, columns |-> 0]
  ELSE [ret |-> 0, set |-> TRUE, rows |-> ws_row, columns |-> ws_col]

\* Variant: E is assigned as a whole, which zeroes the saved attributes.
storeWindowSize_whole(e, ws) ==
  IF ws.set
  THEN [screenRows |-> ws.rows, screenColumns |-> ws.columns,
        original_termios |-> ZeroTermios]
  ELSE e

\* getWindowSize(&E.screenRows, &E.screenColumns): the two fields of E the
\* call writes through its pointers when it succeeds.
storeWindowSize(e, ws) ==
  IF ws.set
  THEN [e EXCEPT !.screenRows = ws.rows, !.screenColumns = ws.columns]
  ELSE e

\* Variant: the handler is not registered.
atexit_none(h, f) == h

\* atexit(f): f is pushed on the handler list; exit() runs the list from
\* the most recently registered handler.
atexit(h, f) == <<f>> \o h

\* die(s): two writes, perror(s), exit(1).
dieOut(o) == o \o <<ED, HOME>>
dieErr(e, s) == Append(e, s)

\* exit() called again from inside an atexit handler is undefined
\* behaviour (C11 7.22.4.4p2).  The C libraries this program builds
\* against either go on with the handlers not yet called and end with the
\* new status ("skip": glibc, BSD libc), or trap the recursive call and
\* kill the process ("trap": musl).
NestedExitOutcomes == {"skip", "trap"}

\* Variant: the second exit() never returns and never ends the process.
nestedExit_blocked(outcome) == "blocked"

nestedExit(outcome) == IF outcome = "trap" THEN "crashed" ELSE "exit"

\* ------------------------------------------------------------------ output
\* Variant: the loop runs with i <= windowSize.
editorDrawRows_offByOne(windowSize) == [i \in 1..(windowSize + 1) |-> ROW]

RECURSIVE editorDrawRows(_)
editorDrawRows(windowSize) ==
  IF windowSize = 0 THEN <<>>
  ELSE <<ROW>> \o editorDrawRows(windowSize - 1)

editorRefreshScreenOut(rows) ==
  <<ED, HOME>> \o editorDrawRows(rows) \o <<HOME>>

\* ------------------------------------------------------------------- input
\* while ((nread = read(...)) != 1) { if (nread == -1 && errno != EAGAIN) die }
ReadResults ==
  {[nread |-> 1, errno |-> "none"], [nread |-> 0, errno |-> "none"],
   [nread |-> -1, errno |-> "EAGAIN"], [nread |-> -1, errno |-> "EIO"]}

\* Variant: the loop only goes on after -1.
readKeyReturns_onTimeout(nr) == nr # -1

readKeyReturns(nr) == nr = 1
readKeyDies(nr, en) == nr = -1 /\ en # "EAGAIN"

\* Variant: the refresh is outside the loop, only editorProcessKey repeats.
loopAfterProcessKey_noRefresh == "read"

\* while (1) { editorRefreshScreen(); editorProcessKey(); }: where the loop
\* goes on after editorProcessKey() has returned.
loopAfterProcessKey == "refresh"

\* Variant: the byte read is masked too, switch (CTRL_KEY(c)).
isQuitKey_masked(k) == CTRL_KEY(k) = CTRL_KEY(QuitLetter)

\* case CTRL_KEY('q'):
isQuitKey(k) == k = CTRL_KEY(QuitLetter)

\* ------------------------------------------------------------------- state
VARIABLES
  pc,          \* position of the process
  term,        \* attributes of the terminal device
  E,           \* struct editorConfig E
  handlers,    \* atexit handlers registered and not yet called
  exitCode,    \* argument of the latest exit() call
  c,           \* char c of editorReadKey / editorProcessKey
  nread,       \* result of the latest read() in editorReadKey
  errno,       \* errno left by that read()
  attempts,    \* unsuccessful read() calls of the editorReadKey in progress
  out,         \* write() calls issued on STDOUT_FILENO, in order
  err,         \* perror() diagnostics, in order
  wfail,       \* a write() of the latest editorRefreshScreen returned -1
  term0,       \* history: attributes of the terminal at process start
  captured,    \* history: result of tcgetattr in init
  rawApplied,  \* history: tcsetattr in enableRawMode succeeded
  winsz,       \* history: result of getWindowSize in init
  reason,      \* history: what called exit() first
  firstCode,   \* history: argument of the first exit() call
  restoreRuns, \* history: calls of disableRawMode
  restored,    \* history: result of tcsetattr in the latest disableRawMode
  refreshes,   \* history: calls of editorRefreshScreen
  keys,        \* history: bytes returned by editorReadKey
  enters,      \* history: calls of enableRawMode whose tcsetattr succeeded
  ctrlArg,     \* argument of CTRL_KEY
  ctrlVal      \* value of CTRL_KEY(ctrlArg)

vars == <<pc, term, E, handlers, exitCode, c, nread, errno, attempts, out,
          err, wfail, term0, captured, rawApplied, winsz, reason, firstCode,
          restoreRuns, restored, refreshes, keys, enters, ctrlArg, ctrlVal>>

Init ==
  /\ pc = "start"
  /\ term \in StartTermios
  /\ term0 = term
  /\ E = [screenRows |-> 0, screenColumns |-> 0, original_termios |-> ZeroTermios]
  /\ handlers = <<>>
  /\ exitCode = 0
  /\ c = 0
  /\ nread = 0
  /\ errno = "none"
  /\ attempts = 0
  /\ out = <<>>
  /\ err = <<>>
  /\ wfail = FALSE
  /\ captured = "none"
  /\ rawApplied = FALSE
  /\ winsz = "none"
  /\ reason = "none"
  /\ firstCode = 0
  /\ restoreRuns = 0
  /\ restored = "none"
  /\ refreshes = 0
  /\ keys = 0
  /\ enters = 0
  /\ ctrlArg = QuitLetter
  /\ ctrlVal = CTRL_KEY(QuitLetter)

\* ----------------------------------------------------------------- actions
\* init(): tcgetattr, atexit(disableRawMode), enableRawMode(), getWindowSize.
init ==
  /\ pc = "start"
  /\ \E getOK \in BOOLEAN, setOK \in BOOLEAN, ioctlOK \in BOOLEAN,
        ws_row \in 0..MaxRows, ws_col \in 0..MaxCols :
       LET orig == tcgetattr(getOK, term, E.original_termios)
           raw == enableRawModeFlags(orig)
           ws == getWindowSize(ioctlOK, ws_row, ws_col)
           died == ~setOK \/ ws.ret = -1
           msg == IF ~setOK THEN "enableRawMode - tcsetattr"
                  ELSE "init - getWindowSize"
       IN  /\ captured' = IF getOK THEN "ok" ELSE "failed"
           /\ handlers' = atexit(handlers, "disableRawMode")
           /\ rawApplied' = setOK
           /\ enters' = IF setOK THEN 1 ELSE 0
           /\ term' = IF setOK THEN raw ELSE term
           /\ winsz' = IF ~setOK THEN "none"
                       ELSE IF ws.ret = -1 THEN "failed" ELSE "ok"
           /\ E' = IF setOK
                   THEN storeWindowSize([E EXCEPT !.original_termios = orig], ws)
                   ELSE [E EXCEPT !.original_termios = orig]
           /\ pc' = IF died THEN "exit" ELSE "refresh"
           /\ out' = IF died THEN dieOut(out) ELSE out
           /\ err' = IF died THEN dieErr(err, msg) ELSE err
           /\ exitCode' = IF died THEN 1 ELSE exitCode
           /\ firstCode' = IF died THEN 1 ELSE firstCode
           /\ reason' = IF ~setOK THEN "enableRawMode"
                        ELSE IF ws.ret = -1 THEN "getWindowSize" ELSE reason
  /\ UNCHANGED <<c, nread, errno, attempts, wfail, term0, restoreRuns,
                 restored, refreshes, keys, ctrlArg, ctrlVal>>

\* editorRefreshScreen(): the results of its writes are not looked at.
\* The c of the previous iteration is out of scope by now; the next
\* editorReadKey() starts from char c = '\0'.
editorRefreshScreen ==
  /\ pc = "refresh"
  /\ refreshes < MaxLoops
  /\ \E failed \in BOOLEAN : wfail' = failed
  /\ out' = out \o editorRefreshScreenOut(E.screenRows)
  /\ refreshes' = refreshes + 1
  /\ c' = 0
  /\ pc' = "read"
  /\ UNCHANGED <<term, E, handlers, exitCode, nread, errno, attempts, err, term0,
                 captured, rawApplied, winsz, reason, firstCode, restoreRuns,
                 restored, keys, enters, ctrlArg, ctrlVal>>

\* One pass of the loop of editorReadKey(): one read() and its test.
editorReadKey ==
  /\ pc = "read"
  /\ \E r \in ReadResults, b \in Byte :
       /\ (r.nread = 1 \/ b = 0)
       /\ (~readKeyReturns(r.nread) /\ ~readKeyDies(r.nread, r.errno))
             => attempts < MaxRetries
       /\ nread' = r.nread
       /\ errno' = r.errno
       /\ LET buf == IF r.nread = 1 THEN b ELSE c
          IN  IF readKeyReturns(r.nread)
              THEN /\ c' = buf
                   /\ pc' = "dispatch"
                   /\ keys' = keys + 1
                   /\ attempts' = 0
                   /\ UNCHANGED <<out, err, exitCode, firstCode, reason>>
              ELSE IF readKeyDies(r.nread, r.errno)
              THEN /\ c' = buf
                   /\ pc' = "exit"
                   /\ out' = dieOut(out)
                   /\ err' = dieErr(err, "editorReadKey - read()")
                   /\ exitCode' = 1
                   /\ firstCode' = 1
                   /\ reason' = "read"
                   /\ UNCHANGED <<keys, attempts>>
              ELSE /\ c' = buf
                   /\ pc' = "read"
                   /\ attempts' = attempts + 1
                   /\ UNCHANGED <<out, err, exitCode, firstCode, reason, keys>>
  /\ UNCHANGED <<term, E, handlers, wfail, term0, captured, rawApplied,
                 winsz, restoreRuns, restored, refreshes, enters, ctrlArg, ctrlVal>>

\* editorProcessKey() after editorReadKey() returned: switch (c).
editorProcessKey ==
  /\ pc = "dispatch"
  /\ IF isQuitKey(c)
     THEN /\ out' = out \o <<ED, HOME>>
          /\ exitCode' = 0
          /\ firstCode' = 0
          /\ reason' = "quit"
          /\ pc' = "exit"
     ELSE /\ pc' = loopAfterProcessKey
          /\ UNCHANGED <<out, exitCode, firstCode, reason>>
  /\ UNCHANGED <<term, E, handlers, c, nread, errno, attempts, err, wfail,
                 term0, captured, rawApplied, winsz, restoreRuns, restored,
                 refreshes, keys, enters, ctrlArg, ctrlVal>>

\* exit() calls the next registered handler: disableRawMode().
disableRawMode ==
  /\ pc = "exit"
  /\ handlers # <<>>
  /\ Head(handlers) = "disableRawMode"
  /\ handlers' = Tail(handlers)
  /\ restoreRuns' = restoreRuns + 1
  /\ \E ok \in BOOLEAN, outcome \in NestedExitOutcomes :
       IF ok
       THEN /\ term' = disableRawModeArg(E)
            /\ restored' = "ok"
            /\ UNCHANGED <<pc, out, err, exitCode>>
       ELSE /\ restored' = "failed"
            /\ out' = dieOut(out)
            /\ err' = dieErr(err, "disableRawMode - tcsetattr")
            /\ exitCode' = 1
            /\ pc' = nestedExit(outcome)
            /\ UNCHANGED term
  /\ UNCHANGED <<E, c, nread, errno, attempts, wfail, term0, captured,
                 rawApplied, winsz, reason, firstCode, refreshes, keys,
                 enters, ctrlArg, ctrlVal>>

\* exit() has called every handler: _exit(exitCode).
exitProcess ==
  /\ pc = "exit"
  /\ handlers = <<>>
  /\ pc' = "done"
  /\ UNCHANGED <<term, E, handlers, exitCode, c, nread, errno, attempts, out,
                 err, wfail, term0, captured, rawApplied, winsz, reason,
                 firstCode, restoreRuns, restored, refreshes, keys, enters,
                 ctrlArg, ctrlVal>>

\* ------------------------------------------------------ session driver
\* The terminal-mode operations on their own: the attributes have been
\* captured and the handler registered (init, lines 207 and 210), then
\* enableRawMode() is called one or more times and the session is ended,
\* which runs disableRawMode() through exit().
ModeTermios ==
  StartTermios \cup
  [c_iflag : SUBSET {"ICRNL", "IUTF8"},
   c_oflag : SUBSET {"OPOST", "ONLCR"},
   c_cflag : SUBSET {"CSIZE0", "PARENB"},
   c_lflag : SUBSET {"ECHO", "ECHOE"},
   c_cc : {cc \in [CcNames -> {0, 3, 4}] :
             cc["VINTR"] = 3 /\ cc["VMIN"] # 3 /\ cc["VTIME"] # 3}]

ModeInit ==
  /\ pc = "mode"
  /\ term \in ModeTermios
  /\ term0 = term
  /\ E = [screenRows |-> 0, screenColumns |-> 0,
          original_termios |-> tcgetattr(TRUE, term, ZeroTermios)]
  /\ handlers = atexit(<<>>, "disableRawMode")
  /\ exitCode = 0
  /\ c = 0
  /\ nread = 0
  /\ errno = "none"
  /\ attempts = 0
  /\ out = <<>>
  /\ err = <<>>
  /\ wfail = FALSE
  /\ captured = "ok"
  /\ rawApplied = FALSE
  /\ winsz = "none"
  /\ reason = "none"
  /\ firstCode = 0
  /\ restoreRuns = 0
  /\ restored = "none"
  /\ refreshes = 0
  /\ keys = 0
  /\ enters = 0
  /\ ctrlArg = QuitLetter
  /\ ctrlVal = CTRL_KEY(QuitLetter)

\* enableRawMode(): derive the raw attributes from E.original_termios and
\* apply them; die when tcsetattr fails.
enableRawMode ==
  /\ pc = "mode"
  /\ enters < MaxEnters
  /\ \E setOK \in BOOLEAN :
       IF setOK
       THEN /\ term' = enableRawModeFlags(E.original_termios)
            /\ E' = [E EXCEPT !.original_termios = enableRawModeSaved(E, term)]
            /\ rawApplied' = TRUE
            /\ enters' = enters + 1
            /\ UNCHANGED <<pc, out, err, exitCode, firstCode, reason>>
       ELSE /\ pc' = "exit"
            /\ out' = dieOut(out)
            /\ err' = dieErr(err, "enableRawMode - tcsetattr")
            /\ exitCode' = 1
            /\ firstCode' = 1
            /\ reason' = "enableRawMode"
            /\ UNCHANGED <<term, E, rawApplied, enters>>
  /\ UNCHANGED <<handlers, c, nread, errno, attempts, wfail, term0, captured,
                 winsz, restoreRuns, restored, refreshes, keys, ctrlArg,
                 ctrlVal>>

\* The driver ends the session: exit(0), as editorProcessKey does on quit.
endSession ==
  /\ pc = "mode"
  /\ enters >= 1
  /\ pc' = "exit"
  /\ exitCode' = 0
  /\ firstCode' = 0
  /\ reason' = "quit"
  /\ UNCHANGED <<term, E, handlers, c, nread, errno, attempts, out, err,
                 wfail, term0, captured, rawApplied, winsz, restoreRuns,
                 restored, refreshes, keys, enters, ctrlArg, ctrlVal>>

ModeNext ==
  \/ enableRawMode
  \/ endSession
  \/ disableRawMode
  \/ exitProcess

ModeSpec == ModeInit /\ [][ModeNext]_vars

\* --------------------------------------------------------- the macro
\* CTRL_KEY on its own, applied to every byte value.
KeyInit ==
  /\ pc = "key"
  /\ ctrlArg \in Byte
  /\ ctrlVal = 0
  /\ term = CookedTermios
  /\ term0 = term
  /\ E = [screenRows |-> 0, screenColumns |-> 0, original_termios |-> ZeroTermios]
  /\ handlers = <<>>
  /\ exitCode = 0
  /\ c = 0
  /\ nread = 0
  /\ errno = "none"
  /\ attempts = 0
  /\ out = <<>>
  /\ err = <<>>
  /\ wfail = FALSE
  /\ captured = "none"
  /\ rawApplied = FALSE
  /\ winsz = "none"
  /\ reason = "none"
  /\ firstCode = 0
  /\ restoreRuns = 0
  /\ restored = "none"
  /\ refreshes = 0
  /\ keys = 0
  /\ enters = 0

applyCtrlKey ==
  /\ pc = "key"
  /\ ctrlVal' = CTRL_KEY(ctrlArg)
  /\ pc' = "masked"
  /\ UNCHANGED <<term, E, handlers, exitCode, c, nread, errno, attempts, out,
                 err, wfail, term0, captured, rawApplied, winsz, reason,
                 firstCode, restoreRuns, restored, refreshes, keys, enters,
                 ctrlArg>>

KeyNext == applyCtrlKey

KeySpec == KeyInit /\ [][KeyNext]_vars

Next ==
  \/ init
  \/ editorRefreshScreen
  \/ editorReadKey
  \/ editorProcessKey
  \/ disableRawMode
  \/ exitProcess

Spec == Init /\ [][Next]_vars

\* The process is the only thread and is never suspended for ever, so a
\* step it can take is eventually taken.
FairSpec == Spec /\ WF_vars(disableRawMode) /\ WF_vars(exitProcess)

Terminated == pc \in {"done", "crashed"}

TypeOK ==
  /\ pc \in {"start", "refresh", "read", "dispatch", "exit", "done", "crashed"}
  /\ exitCode \in {0, 1}
  /\ c \in Byte
  /\ nread \in {-1, 0, 1}
  /\ attempts \in 0..MaxRetries
  /\ refreshes \in 0..MaxLoops
  /\ keys \in 0..MaxLoops
  /\ E.screenRows \in 0..MaxRows
  /\ E.screenColumns \in 0..MaxCols
\* ------------------------------------------------------------------ claims
\* C1: whenever the process has ended (after the quit key, a failed
\* tcsetattr in enableRawMode, a failed window-size query or a read error),
\* disableRawMode has been run, and if its tcsetattr succeeded the terminal
\* has the attributes saved in E.original_termios, which are the attributes
\* the terminal had at startup when tcgetattr captured them.
C1_RestoredOnEveryExit ==
  Terminated =>
    /\ reason \in {"quit", "enableRawMode", "getWindowSize", "read"}
    /\ restoreRuns >= 1
    /\ restored = "ok" =>
         /\ term = E.original_termios
         /\ captured = "ok" => term = term0

C1_Witness ==
  /\ pc = "done"
  /\ reason = "getWindowSize"
  /\ restored = "ok"
  /\ captured = "ok"
  /\ rawApplied
  /\ term = term0
  /\ term0 # enableRawModeFlags(term0)

\* C2: disableRawMode is never run twice, and when the process has ended it
\* has been run exactly once, also when its tcsetattr failed and die()
\* called exit(1) from inside it.
C2_FinalizerRunsOnce ==
  /\ restoreRuns <= 1
  /\ Terminated => restoreRuns = 1

C2_Witness ==
  /\ Terminated
  /\ reason = "quit"
  /\ restored = "failed"
  /\ restoreRuns = 1
  /\ Len(err) = 1

\* C3: if tcgetattr fails in init, raw mode is never applied, the run loop
\* is never entered and the process ends with status 1.
C3_CaptureFailureIsFatal ==
  captured = "failed" =>
    /\ ~rawApplied
    /\ pc \in {"exit", "done", "crashed"}
    /\ Terminated => (pc = "done" /\ exitCode = 1)

\* C4: if the tcsetattr of disableRawMode fails, the process still ends with
\* the status of the exit() call that started the exit: 0 after the quit
\* key, 1 after a fatal error.
C4_RestoreFailureKeepsStatus ==
  (Terminated /\ restored = "failed") =>
    (pc = "done" /\ exitCode = firstCode)

\* C5: once exit() has been called the process ends, also when the
\* tcsetattr of disableRawMode fails.
C5_ExitTerminates == (pc = "exit") ~> Terminated

C5_Witness ==
  /\ Terminated
  /\ reason = "read"
  /\ restored = "failed"
  /\ Len(err) = 2
\* C6: editorProcessKey on byte 0x11 writes the erase-display sequence and
\* then the cursor-home sequence and calls exit, and the process then ends
\* with status 0; on every other byte it writes nothing and the loop goes
\* on to the next refresh.
C6_QuitDispatch ==
  [][ /\ pc = "dispatch" =>
           IF c = 17
           THEN out' = out \o <<ED, HOME>> /\ pc' = "exit" /\ exitCode' = 0
           ELSE out' = out /\ pc' = "refresh"
      /\ (reason' = "quit" /\ Terminated') => (pc' = "done" /\ exitCode' = 0)
    ]_vars

\* C7 as stated: the byte read is masked with 0x1f before the comparison,
\* so quit is triggered exactly when the low five bits of the byte are
\* those of the quit letter.
C7_MaskedDispatch ==
  [][ pc = "dispatch" =>
        ((pc' = "exit") <=> (BitAnd(c, CtrlMask) = BitAnd(QuitLetter, CtrlMask)))
    ]_vars

\* C7 amended: only the quit letter of the case label is masked; the byte
\* read is compared unmasked, so quit is triggered exactly when it is 0x11.
C7_ExactDispatch ==
  [][ pc = "dispatch" =>
        /\ (pc' = "exit" /\ reason' = "quit") <=> (c = 17)
        /\ (pc' = "refresh") <=> (c # 17)
    ]_vars

\* 0x51 'Q' has been dispatched and the loop goes on.
C7_Witness ==
  /\ pc = "refresh"
  /\ keys >= 1
  /\ c = 81
  /\ reason = "none"

\* C8: a read() that returns 0 neither makes editorReadKey return nor ends
\* the process: the loop calls read() again; editorReadKey returns only
\* after a read() that returned one byte.
C8_TimeoutRetries ==
  [][ pc = "read" =>
        /\ nread' = 0 =>
             (pc' = "read" /\ attempts' = attempts + 1 /\ keys' = keys
              /\ reason' = "none")
        /\ pc' = "dispatch" => (nread' = 1 /\ keys' = keys + 1)
        /\ keys' # keys => nread' = 1
    ]_vars

C8_Witness ==
  /\ pc = "read"
  /\ nread = 0
  /\ attempts = MaxRetries
  /\ reason = "none"

\* C9: if getWindowSize fails in init (ioctl failure or zero columns), the
\* process ends with status 1 and neither editorRefreshScreen nor
\* editorProcessKey is ever run.
C9_WindowSizeFailureIsFatal ==
  winsz = "failed" =>
    /\ refreshes = 0
    /\ keys = 0
    /\ pc \in {"exit", "done", "crashed"}
    /\ Terminated => (pc = "done" /\ exitCode = 1)

\* C10: a call of editorRefreshScreen with E.screenRows = N appends to the
\* output exactly ESC[2J, ESC[H, N times "~\r\n", ESC[H, whatever was
\* written before.
C10_RenderDeterminism ==
  [][ (pc = "refresh" /\ pc' = "read") =>
        LET n == E.screenRows
            k == Len(out)
        IN  /\ Len(out') = k + n + 3
            /\ SubSeq(out', 1, k) = out
            /\ out'[k + 1] = ED
            /\ out'[k + 2] = HOME
            /\ \A i \in 1..n : out'[k + 2 + i] = ROW
            /\ out'[k + n + 3] = HOME
    ]_vars

\* The second refresh of a window of zero rows.
C10_Witness ==
  /\ pc = "read"
  /\ refreshes = 2
  /\ E.screenRows = 0
  /\ out = <<ED, HOME, HOME, ED, HOME, HOME>>
\* C11: refreshes and key reads alternate, starting with a refresh: a
\* refresh begins only when every earlier key read has returned and no
\* read is being retried, and a key read begins, retries and returns only
\* between a completed refresh and the next one.
C11_StrictAlternation ==
  [][ /\ refreshes' # refreshes =>
           (pc = "refresh" /\ refreshes = keys /\ attempts = 0
            /\ refreshes' = refreshes + 1 /\ pc' = "read")
      /\ (keys' # keys \/ attempts' # attempts \/ nread' # nread) =>
           (pc = "read" /\ refreshes = keys + 1 /\ refreshes' = refreshes)
      /\ keys' # keys => (keys' = keys + 1 /\ pc' = "dispatch")
      /\ pc' = "read" => refreshes' = keys' + 1
      /\ pc' \in {"refresh", "dispatch"} => refreshes' = keys'
    ]_vars

\* The second key read is being retried after the second refresh.
C11_Witness ==
  /\ pc = "read"
  /\ refreshes = 2
  /\ keys = 1
  /\ attempts >= 1
\* C12: after one or more calls of enableRawMode followed by one
\* disableRawMode whose tcsetattr succeeds, the terminal has, field for
\* field, the attributes captured before the first enableRawMode.
C12_IdempotentRestoration ==
  (Terminated /\ enters >= 1 /\ restored = "ok") =>
    /\ restoreRuns = 1
    /\ term = term0
    /\ \A f \in {"c_iflag", "c_oflag", "c_cflag", "c_lflag", "c_cc"} :
         term[f] = term0[f]

\* Raw mode entered MaxEnters times, then restored.
C12_Witness ==
  /\ pc = "done"
  /\ enters = MaxEnters
  /\ restored = "ok"
  /\ restoreRuns = 1
  /\ term = term0
  /\ enableRawModeFlags(term0) # term0
\* C13: the process ends with status 0 only after the quit key and with
\* status 1 after every fatal error (failed tcgetattr, failed tcsetattr in
\* enableRawMode, failed window-size query, read error); it ends in no
\* other way and leaves the run loop in no other way.
C13_ExitStatus ==
  /\ captured = "failed" => pc \in {"exit", "done", "crashed"}
  /\ pc \in {"exit", "done", "crashed"} =>
       reason \in {"quit", "enableRawMode", "getWindowSize", "read"}
  /\ Terminated =>
       /\ pc = "done"
       /\ exitCode \in {0, 1}
       /\ exitCode = 0 => reason = "quit"
       /\ (reason # "quit" \/ captured = "failed") => exitCode = 1

\* C14: if a write of editorRefreshScreen fails, the process does not go on
\* to the key read: it exits, with a status other than 0.
C14_WriteFailureIsFatal ==
  wfail =>
    /\ pc \in {"exit", "done", "crashed"}
    /\ pc = "done" => exitCode # 0

\* C15: E.original_termios is written by the tcgetattr of init only: after
\* init no step changes it, and it holds the attributes the terminal had at
\* startup when tcgetattr succeeded (the zero-initialised struct otherwise).
C15_SnapshotImmutable ==
  [][ /\ pc # "start" => E'.original_termios = E.original_termios
      /\ captured' = "ok" => E'.original_termios = term0'
      /\ captured' = "failed" => E'.original_termios = ZeroTermios
    ]_vars

\* Raw mode, window size, two refreshes, quit and restore have all run.
C15_Witness ==
  /\ pc = "done"
  /\ reason = "quit"
  /\ restored = "ok"
  /\ refreshes = 2
  /\ rawApplied
  /\ winsz = "ok"
  /\ E.original_termios = term0
  /\ term0 # ZeroTermios

\* C16: the attributes enableRawMode applies differ from the snapshot only
\* in BRKINT, ICRNL, INPCK, ISTRIP, IXON (cleared), OPOST (cleared), ECHO,
\* ICANON, ISIG, IEXTEN (cleared), the CS8 bits (set), VMIN = 1 and
\* VTIME = 1; every other flag bit and control character is the snapshot's.
C16_RawModeFrame ==
  (pc = "mode" /\ enters >= 1) =>
    LET o == E.original_termios
    IN  /\ o = term0
        /\ \A f \in term.c_iflag \cup o.c_iflag :
             f \in term.c_iflag <=>
               (f \in o.c_iflag
                /\ f \notin {"BRKINT", "ICRNL", "INPCK", "ISTRIP", "IXON"})
        /\ \A f \in term.c_oflag \cup o.c_oflag :
             f \in term.c_oflag <=> (f \in o.c_oflag /\ f # "OPOST")
        /\ \A f \in term.c_lflag \cup o.c_lflag :
             f \in term.c_lflag <=>
               (f \in o.c_lflag
                /\ f \notin {"ECHO", "ICANON", "ISIG", "IEXTEN"})
        /\ \A f \in term.c_cflag \cup o.c_cflag \cup {"CSIZE0", "CSIZE1"} :
             f \in term.c_cflag <=>
               (f \in o.c_cflag \/ f \in {"CSIZE0", "CSIZE1"})
        /\ DOMAIN term.c_cc = DOMAIN o.c_cc
        /\ \A n \in DOMAIN o.c_cc :
             term.c_cc[n] = IF n \in {"VMIN", "VTIME"} THEN 1 ELSE o.c_cc[n]

\* Raw mode applied to a 7-bit configuration with flags that must survive.
C16_Witness ==
  /\ pc = "mode"
  /\ enters = 1
  /\ term0.c_iflag = {"ICRNL", "IUTF8"}
  /\ term.c_iflag = {"IUTF8"}
  /\ term0.c_cflag = {"PARENB"}
  /\ term.c_cflag = {"PARENB", "CSIZE0", "CSIZE1"}
  /\ term0.c_cc["VMIN"] = 4
  /\ term.c_cc["VMIN"] = 1
  /\ term.c_cc["VINTR"] = 3
\* The ASCII control code of Ctrl+letter: the letter's place in the
\* alphabet, counted from 1.
AlphabetPosition(l) == IF l \in 65..90 THEN l - 64 ELSE l - 96

\* C17: for every ASCII letter, upper or lower case, CTRL_KEY of the letter
\* is the letter's place in the alphabet (Ctrl+Q is 0x11, Ctrl+C is 0x03),
\* hence the same for both cases of a letter.
C17_MaskCorrectness ==
  (pc = "masked" /\ ctrlArg \in (65..90) \cup (97..122)) =>
    /\ ctrlVal = AlphabetPosition(ctrlArg)
    /\ ctrlVal \in 1..26
    /\ ctrlArg \in {81, 113} => ctrlVal = 17
    /\ ctrlArg \in {67, 99} => ctrlVal = 3

C17_Witness ==
  /\ pc = "masked"
  /\ ctrlArg = 81
  /\ ctrlVal = 17
\* The run loop: editorRefreshScreen or editorProcessKey is next or running.
Running(p) == p \in {"refresh", "read", "dispatch"}

\* C18: while the run loop is running, the tcsetattr of enableRawMode has
\* succeeded and the terminal has the raw attributes, and the stored window
\* size comes from a successful query with more than zero columns; the loop
\* is entered only from init, which never runs again.
C18_RunningEstablished ==
  [][ /\ Running(pc') =>
           /\ rawApplied'
           /\ enters' = 1
           /\ term' = enableRawModeFlags(E'.original_termios)
           /\ winsz' = "ok"
           /\ E'.screenColumns > 0
      /\ (Running(pc') /\ ~Running(pc)) => pc = "start"
      /\ pc' = "start" => pc = "start"
    ]_vars

C18_Witness ==
  /\ pc = "dispatch"
  /\ refreshes = 2
  /\ keys = 2
  /\ rawApplied
  /\ winsz = "ok"
  /\ E.screenColumns = 1
  /\ E.screenRows = MaxRows

\* C19: one key is read and dispatched per loop iteration; when the k-th
\* byte read is the first 0x11, the process has made k refreshes and k key
\* reads, reads no further byte and ends with status 0.
C19_KeysConsumedInOrder ==
  [][ /\ pc = "dispatch" =>
           /\ refreshes = keys
           /\ c = 17 => (pc' = "exit" /\ reason' = "quit")
           /\ c # 17 => (pc' = "refresh" /\ reason' = "none")
      /\ keys' # keys =>
           (keys' = keys + 1 /\ refreshes = keys + 1 /\ reason = "none")
      /\ reason' = "quit" => refreshes' = keys'
      /\ (reason' = "quit" /\ Terminated') => (pc' = "done" /\ exitCode' = 0)
    ]_vars

\* C20: in editorReadKey a read() result of -1 ends the process with status
\* 1 exactly when errno is not EAGAIN; -1 with EAGAIN and 0 lead to another
\* read(), so that editorReadKey does not return and the process does not
\* end while nothing else arrives; a result of 1 makes it return the byte.
C20_ReadErrorPolicy ==
  [][ /\ pc = "read" =>
           /\ pc' = "exit" <=> (nread' = -1 /\ errno' # "EAGAIN")
           /\ pc' = "exit" => (reason' = "read" /\ exitCode' = 1)
           /\ (nread' = 0 \/ (nread' = -1 /\ errno' = "EAGAIN")) =>
                (pc' = "read" /\ keys' = keys /\ reason' = "none")
           /\ pc' = "dispatch" <=> (nread' = 1 /\ keys' = keys + 1)
      /\ (reason' = "read" /\ Terminated') => (pc' = "done" /\ exitCode' = 1)
    ]_vars
====
